---- MODULE Spec2Model ----
(***************************************************************************)
(* Instrumented-callable hook system of arthoolbox / atb.                  *)
(*                                                                         *)
(* One object under study per behaviour, chosen by impl:                   *)
(*   "Hookable"     arthoolbox/hooks.py  (HookList of weak references)     *)
(*   "_HookWrapper" atb/hooks.py         (plain lists of callables)        *)
(*   "HookWrapper"  atb/functional/hooks.py (plain lists of callables)     *)
(*   "Before", "After", "Decorate"  atb/functional/decorate.py             *)
(*   "After_core", "Decorate_core"  arthoolbox/functional/core.py          *)
(*                                                                         *)
(* An invocation is executed one call at a time: pc is the position in the *)
(* body of __call__ (or of the __wrapper closures), idx the position in    *)
(* the list being iterated, trace the calls made so far by the current     *)
(* invocation.                                                             *)
(***************************************************************************)
EXTENDS Integers, Sequences, FiniteSets, TLC

VARIABLES
    impl,      \* which object this behaviour is about
    hooks,     \* the four lists of the wrapper: stage -> sequence of entries
    held,      \* Hook objects whose handle the caller still holds
    nhooks,    \* number of callables given as hooks so far
    actions,   \* After / Decorate: the action bound to each parameter
    other,     \* the four lists of a second wrapper of the same class
    script,    \* what the callable and the hooks do when told in advance
    memo,      \* the invocation of Decorate a later invocation is compared to
    op,        \* the operation running, or the last one that ran
    pc,        \* position of the running invocation
    lst,       \* the list being invoked by a direct HookList call
    idx,       \* 1-based position in the list being iterated
    args,      \* the argument of the running invocation
    trace,     \* calls made by the running invocation, in order
    results,   \* results collected by a direct HookList call
    r,         \* local r of __call__
    caught,    \* local err of the except clause
    pending,   \* exception in flight while the finally clause runs
    errs,      \* errors raised so far in the running operation, in order
    outcome    \* what the caller received

vars == <<impl, hooks, held, nhooks, actions, other, script, memo, op, pc,
          lst, idx, args, trace, results, r, caught, pending, errs, outcome>>

\* What an invocation leaves alone.
config == <<impl, hooks, held, nhooks, actions, other, script, memo>>

\* What an operation on the lists of the wrapper leaves alone.
apart == <<other, script, memo>>

\* The operation running.
frame == <<op, pc, lst, idx, args, trace, results, r, caught, pending, errs,
           outcome>>

----------------------------------------------------------------------------
(* Bounds *)

\* Callables ever given as hooks, and entries stored over the four lists.
MaxHooks == 2

\* The arguments an invocation is made with.
Args == {1, 2}

----------------------------------------------------------------------------
(* Values *)

None == [t |-> "None"]

Arg(a) == [t |-> "arg", v |-> a]

\* The value / error the wrapped callable produces for argument a.
Res(a)   == [t |-> "res", v |-> a]
FErr(a)  == [t |-> "exc", cls |-> "Exception", src |-> <<"f", a>>]
FBase(a) == [t |-> "exc", cls |-> "BaseException", src |-> <<"f", a>>]

\* The value / error the h-th hook callable produces.
HRes(h)      == [t |-> "hres", v |-> h]
HErr(h)      == [t |-> "exc", cls |-> "Exception", src |-> <<"hook", h>>]
TypeError(h) == [t |-> "exc", cls |-> "Exception", src |-> <<"TypeError", h>>]

Ret(v)   == [t |-> "ret", v |-> v]
Raise(e) == [t |-> "raise", e |-> e]

Skip     == [t |-> "skip"]

ListOf(items) == [t |-> "list", items |-> items]

Returned(v) == [t |-> "return", v |-> v]
Raised(e)   == [t |-> "raise", e |-> e]

F == <<"f", 0>>
CallRec(fn, argv) == [fn |-> fn, argv |-> argv]

Stages == {"pre", "post", "post_success", "post_failure"}

Impls == {"Hookable", "_HookWrapper", "HookWrapper", "Before", "After",
          "Decorate", "After_core", "Decorate_core"}

\* The copies of After / Decorate in arthoolbox/functional/core.py.
CoreCopies == {"After_core", "Decorate_core"}

\* What one call of a callable given as a hook may do: return a value of its
\* own, return None, raise an error of its own.  Called with no argument,
\* def h(x, *rest) fails to bind x (TypeError) and def h(*args, **kwargs)
\* does what it does, here return None.
CallB    == {"returns", "silent", "raises"}
NullaryB == {"silent", "TypeError"}

----------------------------------------------------------------------------
(* Hook callables and Hook objects *)

\* What an operation does: the calls it makes and how it ends.
Eff(calls, out) == [calls |-> calls, out |-> out]

HookObj(h) == [t |-> "Hook", h |-> h]
WeakRef(h) == [k |-> "ref", h |-> h]
Fn(h)      == [k |-> "fn", h |-> h]

\* The h-th callable given as a hook, doing b in this call.
HookF(h, b) ==
    CASE b = "silent"    -> Ret(None)
      [] b = "returns"   -> Ret(HRes(h))
      [] b = "raises"    -> Raise(HErr(h))
      [] b = "TypeError" -> Raise(TypeError(h))

\* Hook.__call__: return self.f(*args, **kwargs)
Hook_call(h, argv, b) ==
    Eff(<<CallRec(<<"hook", h>>, argv)>>, HookF(h, b))

\* obj(*argv) for an object found where a callable is expected.
CallObj(obj, argv, b) ==
    IF obj.t = "Hook" THEN Hook_call(obj.h, argv, b)
    ELSE Eff(<<>>, Raise(TypeError(0)))

\* A Hook object lives while its handle is held or a list stores the object
\* itself (reference counting: a weak reference does not keep it alive).
\* hk is the four lists as they are when the question is asked; the lists of
\* the second wrapper count as well.
AliveIn(hk, h) ==
    \/ h \in held
    \/ \E s \in Stages : \E i \in 1..Len(hk[s]) : hk[s][i] = HookObj(h)
    \/ \E s \in Stages : \E i \in 1..Len(other[s]) : other[s][i] = HookObj(h)

Alive(h) == AliveIn(hooks, h)

IsRef(e) == "k" \in DOMAIN e

\* Faulty variant: the list keeps the Hook itself, so a released hook is still
\* found.
Deref_strong(hk, e, b0) ==
    IF IsRef(e)
    THEN Eff(<<>>, Ret(HookObj(e.h)))
    ELSE CallObj(e, <<>>, b0)

\* ref() for an entry of HookList.__hooks: a weak reference gives its Hook
\* or None; anything else stored there is called with no argument (b0 is
\* what that call does).
Deref(hk, e, b0) ==
    IF IsRef(e)
    THEN Eff(<<>>, Ret(IF AliveIn(hk, e.h) THEN HookObj(e.h) ELSE None))
    ELSE CallObj(e, <<>>, b0)

\* One turn of `for ref in self.__hooks` in valid_hooks: the calls made, and
\* Ret(hook) when a hook is yielded, Ret(None) when the entry is passed
\* over, Raise(e) when ref() raises.
valid_hooks_item(hk, e, b0) ==
    LET hook == Deref(hk, e, b0) IN hook

\* One element of [hook(*args) for hook in self.valid_hooks()].
HookList_call_item(hk, e, argv, b0, b) ==
    LET v == valid_hooks_item(hk, e, b0) IN
    IF v.out.t = "raise" THEN v
    ELSE IF v.out.v = None THEN Eff(v.calls, Skip)
    ELSE LET c == CallObj(v.out.v, argv, b) IN Eff(v.calls \o c.calls, c.out)

\* One turn of `for f in self.hooks.<stage>: f(...)` over a plain list.
PlainItem(e, argv, b) ==
    Eff(<<CallRec(<<"hook", e.h>>, argv)>>, HookF(e.h, b))

\* The Hook an entry stands for (0 when it stands for none).
HookOf(e) == IF IsRef(e) \/ e.t = "Hook" THEN e.h ELSE 0

\* list(self.valid_hooks()) over list L from position i on, given the calls
\* made and the hooks collected so far; bs[h] is what a call of hook h with
\* no argument does.
RECURSIVE valid_hooks_from(_, _, _, _, _, _)
valid_hooks_from(hk, L, i, calls, acc, bs) ==
    IF i > Len(L) THEN Eff(calls, Ret(acc))
    ELSE LET v == valid_hooks_item(hk, L[i],
                     IF HookOf(L[i]) = 0 THEN "TypeError"
                     ELSE bs[HookOf(L[i])]) IN
         IF v.out.t = "raise" THEN Eff(calls \o v.calls, v.out)
         ELSE valid_hooks_from(hk, L, i + 1, calls \o v.calls,
                               IF v.out.v = None THEN acc
                               ELSE Append(acc, v.out.v), bs)

valid_hooks(hk, s, bs) == valid_hooks_from(hk, hk[s], 1, <<>>, <<>>, bs)

\* The ways ref() can go for entry e: only an entry that is not a weak
\* reference calls a hook with no argument.
NullaryFor(e) == IF "k" \in DOMAIN e THEN {"silent"} ELSE NullaryB

\* One choice of what a call with no argument does, for each Hook that some
\* list stores as the object itself.
NullaryChoices(hk) ==
    {bs \in [1..nhooks -> NullaryB] :
        \A h \in 1..nhooks :
           (\A s \in Stages : \A i \in 1..Len(hk[s]) : hk[s][i] # HookObj(h))
              => bs[h] = "silent"}

NotRunning == pc = "idle"

----------------------------------------------------------------------------
(* Construction *)

EmptyHooks == [s \in Stages |-> <<>>]

\* Frame of an operation: every variable an operation in progress uses.
Frame(o, p, l, i, a, t, res, rr, c, pe, es, out) ==
    /\ op' = o
    /\ pc' = p
    /\ lst' = l
    /\ idx' = i
    /\ args' = a
    /\ trace' = t
    /\ results' = res
    /\ r' = rr
    /\ caught' = c
    /\ pending' = pe
    /\ errs' = es
    /\ outcome' = out

\* An operation that ran in one step, having made `calls` and ended `out`.
Ran(o, calls, out) ==
    Frame(o, "done", "pre", 1, 1, calls, <<>>, None, None, None, <<>>, out)

\* The same for an operation on list s.
RanOn(o, s, calls, out) ==
    Frame(o, "done", s, 1, 1, calls, <<>>, None, None, None, <<>>, out)

\* Hooks() / Hookable.__init__ / _HookWrapper.__init__ / HookWrapper.__init__:
\* four empty lists.  After / Decorate: each parameter is given an action or
\* left at its default, DoNothing.
Init ==
    /\ impl \in Impls
    /\ hooks = EmptyHooks
    /\ held = {}
    /\ nhooks = 0
    /\ IF impl \in {"Before", "After", "Decorate"} \cup CoreCopies
       THEN /\ actions \in [Stages -> {"DoNothing", "given"}]
            /\ impl \in {"After", "After_core"} =>
                  actions["pre"] = "DoNothing"
            /\ impl = "Before" =>
                  actions = [s \in Stages |->
                               IF s = "pre" THEN "given" ELSE "DoNothing"]
       ELSE actions = [s \in Stages |-> "DoNothing"]
    /\ other = EmptyHooks
    /\ script = None
    /\ memo = None
    /\ op = "init"
    /\ pc = "idle"
    /\ lst = "pre"
    /\ idx = 1
    /\ args = 1
    /\ trace = <<>>
    /\ results = <<>>
    /\ r = None
    /\ caught = None
    /\ pending = None
    /\ errs = <<>>
    /\ outcome = None

\* The operation is over: its result or error is with the caller, who may
\* start the next operation.
Return ==
    /\ pc = "done"
    /\ Frame("init", "idle", "pre", 1, 1, <<>>, <<>>, None, None, None, <<>>,
             None)
    /\ UNCHANGED config

Entries == Len(hooks["pre"]) + Len(hooks["post"])
           + Len(hooks["post_success"]) + Len(hooks["post_failure"])

----------------------------------------------------------------------------
(* HookList operations (arthoolbox/hooks.py) *)

\* Faulty variant: the list keeps the Hook itself (append(hook)), so it owns
\* what is attached to it.
attach_hook_strong(s, h) ==
    /\ impl = "Hookable"
    /\ NotRunning
    /\ Entries < MaxHooks
    /\ \/ h \in held /\ nhooks' = nhooks
       \/ h = nhooks + 1 /\ nhooks < MaxHooks /\ nhooks' = h
    /\ hooks' = [hooks EXCEPT ![s] = Append(@, HookObj(h))]
    /\ held' = held \cup {h}
    /\ RanOn("attach", s, <<>>, Returned(HookObj(h)))
    /\ UNCHANGED apart
    /\ UNCHANGED <<impl, actions>>

\* Faulty variant: the weak reference is inserted at the head of the list.
attach_hook_prepend(s, h) ==
    /\ impl = "Hookable"
    /\ NotRunning
    /\ Entries < MaxHooks
    /\ \/ h \in held /\ nhooks' = nhooks
       \/ h = nhooks + 1 /\ nhooks < MaxHooks /\ nhooks' = h
    /\ hooks' = [hooks EXCEPT ![s] = <<WeakRef(h)>> \o @]
    /\ held' = held \cup {h}
    /\ RanOn("attach", s, <<>>, Returned(HookObj(h)))
    /\ UNCHANGED apart
    /\ UNCHANGED <<impl, actions>>

\* attach_hook(obj) on list s.  Given a callable, it is wrapped into a new
\* Hook (h = nhooks + 1); given a Hook the caller holds, that very Hook is
\* used.  A weak reference to the Hook is appended and the Hook is returned:
\* the caller holds the only strong reference to a new one.
attach_hook(s, h) ==
    /\ impl = "Hookable"
    /\ NotRunning
    /\ Entries < MaxHooks
    /\ \/ h \in held /\ nhooks' = nhooks
       \/ h = nhooks + 1 /\ nhooks < MaxHooks /\ nhooks' = h
    /\ hooks' = [hooks EXCEPT ![s] = Append(@, WeakRef(h))]
    /\ held' = held \cup {h}
    /\ RanOn("attach", s, <<>>, Returned(HookObj(h)))
    /\ UNCHANGED apart
    /\ UNCHANGED <<impl, actions>>

\* The caller drops the handle attach_hook returned (del hook).
release(h) ==
    /\ impl = "Hookable"
    /\ NotRunning
    /\ h \in held
    /\ held' = held \ {h}
    /\ Ran("release", <<>>, Returned(None))
    /\ UNCHANGED apart
    /\ UNCHANGED <<impl, hooks, nhooks, actions>>

\* HookList.cleanup on list s: self.__hooks = list(self.valid_hooks()).
\* Gives the four lists afterwards, the calls made and how it ended.
HookList_cleanup(hk, s, bs) ==
    LET v == valid_hooks(hk, s, bs) IN
    IF v.out.t = "raise" THEN [hooks |-> hk, calls |-> v.calls, out |-> v.out]
    ELSE [hooks |-> [hk EXCEPT ![s] = v.out.v], calls |-> v.calls,
          out |-> Ret(None)]

cleanup_list(s) ==
    /\ impl = "Hookable"
    /\ NotRunning
    /\ \E bs \in NullaryChoices(hooks) :
          LET c == HookList_cleanup(hooks, s, bs) IN
          /\ hooks' = c.hooks
          /\ RanOn("cleanup", s, c.calls,
                 IF c.out.t = "raise" THEN Raised(c.out.e)
                 ELSE Returned(None))
    /\ UNCHANGED apart
    /\ UNCHANGED <<impl, held, nhooks, actions>>

\* HookList.__repr__ on list s: "[" + ", ".join(repr(hook) for hook in
\* self.valid_hooks()) + "]", the text being kept as the hooks it lists.
HookList_repr(s) ==
    /\ impl = "Hookable"
    /\ NotRunning
    /\ \E bs \in NullaryChoices(hooks) :
          LET v == valid_hooks(hooks, s, bs) IN
          RanOn("repr", s, v.calls,
                IF v.out.t = "raise" THEN Raised(v.out.e)
                ELSE Returned(ListOf(v.out.v)))
    /\ UNCHANGED config

\* Hookable.cleanup: [hooks.cleanup() for hooks in (pre, post, post_success,
\* post_failure)], from the i-th of them on.
CleanupOrder == <<"pre", "post", "post_success", "post_failure">>

RECURSIVE Hookable_cleanup_from(_, _, _, _)
Hookable_cleanup_from(hk, i, calls, bs) ==
    IF i > Len(CleanupOrder)
    THEN [hooks |-> hk, calls |-> calls, out |-> Ret(None)]
    ELSE LET c == HookList_cleanup(hk, CleanupOrder[i], bs) IN
         IF c.out.t = "raise"
         THEN [hooks |-> c.hooks, calls |-> calls \o c.calls, out |-> c.out]
         ELSE Hookable_cleanup_from(c.hooks, i + 1, calls \o c.calls, bs)

Hookable_cleanup ==
    /\ impl = "Hookable"
    /\ NotRunning
    /\ \E bs \in NullaryChoices(hooks) :
          LET c == Hookable_cleanup_from(hooks, 1, <<>>, bs) IN
          /\ hooks' = c.hooks
          /\ Ran("cleanup_all", c.calls,
                 IF c.out.t = "raise" THEN Raised(c.out.e)
                 ELSE Returned(None))
    /\ UNCHANGED apart
    /\ UNCHANGED <<impl, held, nhooks, actions>>

----------------------------------------------------------------------------
(* Running an invocation, one call at a time *)

\* What the wrapped callable may do when called with a: return its result,
\* raise an Exception, or raise a BaseException that is not an Exception.
FOutcomes(a) == {Ret(Res(a)), Raise(FErr(a)), Raise(FBase(a))}

\* The inputs of a run are free, or told in advance by script: the argument
\* and what the wrapped callable does (what the hooks do: see BChoice).
ArgChoice == IF script = None THEN Args ELSE {script.a}

FScripted(a, k) ==
    CASE k = "ret"       -> Ret(Res(a))
      [] k = "Exception" -> Raise(FErr(a))
      [] OTHER           -> Raise(FBase(a))

FChoice == IF script = None THEN FOutcomes(args)
           ELSE {FScripted(args, script.f)}

Running(p) == op = "invoke" /\ pc = p

\* The locals of the running invocation.
Cur == [pc |-> pc, r |-> r, caught |-> caught, pending |-> pending,
        outcome |-> outcome]

\* The invocation moves to the locals n, having made `calls` and seen the
\* errors es raised.
Move(n, i, calls, es) ==
    Frame("invoke", n.pc, lst, i, args, trace \o calls, results, n.r,
          n.caught, n.pending, errs \o es, n.outcome)

----------------------------------------------------------------------------
(* Hookable.__call__ (arthoolbox/hooks.py) *)

\* Hookable.__call__: the arguments given to each list
Hookable_argv(s) ==
    CASE s = "pre"          -> <<Arg(args)>>
      [] s = "post_failure" -> <<caught, Arg(args)>>
      [] s = "post_success" -> <<r, Arg(args)>>
      [] s = "post"         -> <<Arg(args)>>

\* Faulty variant: the pre stage sits inside the try statement, so the finally
\* clause runs when a pre hook raises.
Hookable_pre_in_try(ev, x) ==
    CASE ev = "end"   -> [Cur EXCEPT !.pc = "call"]
      [] ev = "raise" -> [Cur EXCEPT !.pc = "post", !.pending = x]

\* self.hooks.pre(*args) (before the try statement)
Hookable_pre(ev, x) ==
    CASE ev = "end"   -> [Cur EXCEPT !.pc = "call"]
      [] ev = "raise" -> [Cur EXCEPT !.pc = "done", !.pending = x,
                                     !.outcome = Raised(x)]

\* Faulty variant: the clause is `except BaseException as err:`, so every failure
\* of the callable reaches the post_failure hooks.
Hookable_try_catches_all(ev, x) ==
    CASE ev = "ret" -> [Cur EXCEPT !.pc = "post_success", !.r = x]
      [] OTHER      -> [Cur EXCEPT !.pc = "post_failure", !.caught = x]

\* try: r = f(*args) / except Exception as err: / else: / (finally:)
Hookable_try(ev, x) ==
    CASE ev = "ret"            -> [Cur EXCEPT !.pc = "post_success", !.r = x]
      [] x.cls = "Exception"   -> [Cur EXCEPT !.pc = "post_failure",
                                              !.caught = x]
      [] OTHER                 -> [Cur EXCEPT !.pc = "post", !.pending = x]

\* Faulty variant: the except clause lacks its `raise`, the error is swallowed.
Hookable_except_no_raise(ev, x) ==
    CASE ev = "end"   -> [Cur EXCEPT !.pc = "post"]
      [] ev = "raise" -> [Cur EXCEPT !.pc = "post", !.pending = x]

\* Faulty variant: after the post_failure hooks control falls into the else
\* clause, so the post_success hooks run as well.
Hookable_except_then_else(ev, x) ==
    CASE ev = "end"   -> [Cur EXCEPT !.pc = "post_success", !.pending = caught]
      [] ev = "raise" -> [Cur EXCEPT !.pc = "post", !.pending = x]

\* except Exception as err: self.hooks.post_failure(err, *args); raise
Hookable_except(ev, x) ==
    CASE ev = "end"   -> [Cur EXCEPT !.pc = "post", !.pending = caught]
      [] ev = "raise" -> [Cur EXCEPT !.pc = "post", !.pending = x]

\* Faulty variant: the post stage follows the try statement instead of being its
\* finally clause, so an error of a post_success hook skips it.
Hookable_else_no_finally(ev, x) ==
    CASE ev = "end"   -> [Cur EXCEPT !.pc = "post"]
      [] ev = "raise" -> [Cur EXCEPT !.pc = "done", !.pending = x,
                                     !.outcome = Raised(x)]

\* Faulty variant: r is rebound to what the post_success stage gave back
\* (r = self.hooks.post_success(r, *args)).
Hookable_else_rebinds(ev, x) ==
    CASE ev = "end"   -> [Cur EXCEPT !.pc = "post", !.r = ListOf(<<>>)]
      [] ev = "raise" -> [Cur EXCEPT !.pc = "post", !.pending = x]

\* else: self.hooks.post_success(r, *args)
Hookable_else(ev, x) ==
    CASE ev = "end"   -> [Cur EXCEPT !.pc = "post"]
      [] ev = "raise" -> [Cur EXCEPT !.pc = "post", !.pending = x]

\* finally: self.hooks.post(*args) / return r
Hookable_finally(ev, x) ==
    CASE ev = "end"   -> [Cur EXCEPT !.pc = "done",
                                     !.outcome = IF pending # None
                                                 THEN Raised(pending)
                                                 ELSE Returned(r)]
      [] ev = "raise" -> [Cur EXCEPT !.pc = "done", !.pending = x,
                                     !.outcome = Raised(x)]

Hookable_clause(p, ev, x) ==
    CASE p = "pre"          -> Hookable_pre(ev, x)
      [] p = "call"         -> Hookable_try(ev, x)
      [] p = "post_failure" -> Hookable_except(ev, x)
      [] p = "post_success" -> Hookable_else(ev, x)
      [] p = "post"         -> Hookable_finally(ev, x)

\* Faulty variant: the post stage iterates the list as it was before a hook
\* changed it during the invocation.
Hookable_list_snapshot(s) ==
    IF s = "post" /\ memo # None /\ "post" \in DOMAIN memo THEN memo.post
    ELSE hooks[s]

\* self.hooks.<s>, read when the stage runs.
Hookable_list(s) == hooks[s]

Hookable_item(e, argv, b0, b) == HookList_call_item(hooks, e, argv, b0, b)

----------------------------------------------------------------------------
(* HookWrapper.__call__ (atb/functional/hooks.py) *)

\* Faulty variant: post_success hooks are given (*args, r) instead of (r, *args).
HookWrapper_argv_result_last(s) ==
    CASE s = "pre"          -> <<Arg(args)>>
      [] s = "post_failure" -> <<caught, Arg(args)>>
      [] s = "post_success" -> <<Arg(args), r>>
      [] s = "post"         -> <<Arg(args)>>

\* HookWrapper.__call__: the arguments given to each hook
HookWrapper_argv(s) ==
    CASE s = "pre"          -> <<Arg(args)>>
      [] s = "post_failure" -> <<caught, Arg(args)>>
      [] s = "post_success" -> <<r, Arg(args)>>
      [] s = "post"         -> <<Arg(args)>>

\* for f in self.hooks.pre: f(*args) (before the try statement)
HookWrapper_pre(ev, x) ==
    CASE ev = "end"   -> [Cur EXCEPT !.pc = "call"]
      [] ev = "raise" -> [Cur EXCEPT !.pc = "done", !.pending = x,
                                     !.outcome = Raised(x)]

\* Faulty variant: the callable is called a second time after a first Exception.
HookWrapper_try_retry(ev, x) ==
    CASE ev = "ret"            -> [Cur EXCEPT !.pc = "post_success", !.r = x]
      [] x.cls = "Exception"   -> IF caught = None
                                  THEN [Cur EXCEPT !.pc = "call", !.caught = x]
                                  ELSE [Cur EXCEPT !.pc = "post_failure",
                                                   !.caught = x]
      [] OTHER                 -> [Cur EXCEPT !.pc = "post", !.pending = x]

\* try: r = f(*args) / except Exception as err: / else: / (finally:)
HookWrapper_try(ev, x) ==
    CASE ev = "ret"            -> [Cur EXCEPT !.pc = "post_success", !.r = x]
      [] x.cls = "Exception"   -> [Cur EXCEPT !.pc = "post_failure",
                                              !.caught = x]
      [] OTHER                 -> [Cur EXCEPT !.pc = "post", !.pending = x]

\* except Exception as err: for f in self.hooks.post_failure: f(err, *args); raise
HookWrapper_except(ev, x) ==
    CASE ev = "end"   -> [Cur EXCEPT !.pc = "post", !.pending = caught]
      [] ev = "raise" -> [Cur EXCEPT !.pc = "post", !.pending = x]

\* else: for f in self.hooks.post_success: f(r, *args)
HookWrapper_else(ev, x) ==
    CASE ev = "end"   -> [Cur EXCEPT !.pc = "post"]
      [] ev = "raise" -> [Cur EXCEPT !.pc = "post", !.pending = x]

\* Faulty variant: an error of a post hook is dropped when another error is already
\* in flight (the first error wins).
HookWrapper_finally_first_wins(ev, x) ==
    CASE ev = "end"   -> [Cur EXCEPT !.pc = "done",
                                     !.outcome = IF pending # None
                                                 THEN Raised(pending)
                                                 ELSE Returned(r)]
      [] ev = "raise" -> [Cur EXCEPT !.pc = "done",
                                     !.pending = IF pending # None
                                                 THEN pending ELSE x,
                                     !.outcome = IF pending # None
                                                 THEN Raised(pending)
                                                 ELSE Raised(x)]

\* finally: for f in self.hooks.post: f(*args) / return r
HookWrapper_finally(ev, x) ==
    CASE ev = "end"   -> [Cur EXCEPT !.pc = "done",
                                     !.outcome = IF pending # None
                                                 THEN Raised(pending)
                                                 ELSE Returned(r)]
      [] ev = "raise" -> [Cur EXCEPT !.pc = "done", !.pending = x,
                                     !.outcome = Raised(x)]

HookWrapper_clause(p, ev, x) ==
    CASE p = "pre"          -> HookWrapper_pre(ev, x)
      [] p = "call"         -> HookWrapper_try(ev, x)
      [] p = "post_failure" -> HookWrapper_except(ev, x)
      [] p = "post_success" -> HookWrapper_else(ev, x)
      [] p = "post"         -> HookWrapper_finally(ev, x)

HookWrapper_list(s) == hooks[s]

HookWrapper_item(e, argv, b0, b) == PlainItem(e, argv, b)

----------------------------------------------------------------------------
(* _HookWrapper.__call__ (atb/hooks.py) *)

\* _HookWrapper.__call__: the arguments given to each hook
_HookWrapper_argv(s) ==
    CASE s = "pre"          -> <<Arg(args)>>
      [] s = "post_failure" -> <<caught, Arg(args)>>
      [] s = "post_success" -> <<r, Arg(args)>>
      [] s = "post"         -> <<Arg(args)>>

\* for f in self.hooks.pre: f(*args) (before the try statement)
_HookWrapper_pre(ev, x) ==
    CASE ev = "end"   -> [Cur EXCEPT !.pc = "call"]
      [] ev = "raise" -> [Cur EXCEPT !.pc = "done", !.pending = x,
                                     !.outcome = Raised(x)]

\* Faulty variant: the clause is `except BaseException as err:`.
_HookWrapper_try_catches_all(ev, x) ==
    CASE ev = "ret" -> [Cur EXCEPT !.pc = "post_success", !.r = x]
      [] OTHER      -> [Cur EXCEPT !.pc = "post_failure", !.caught = x]

\* try: r = f(*args) / except Exception as err: / else: / (finally:)
_HookWrapper_try(ev, x) ==
    CASE ev = "ret"            -> [Cur EXCEPT !.pc = "post_success", !.r = x]
      [] x.cls = "Exception"   -> [Cur EXCEPT !.pc = "post_failure",
                                              !.caught = x]
      [] OTHER                 -> [Cur EXCEPT !.pc = "post", !.pending = x]

\* Faulty variant: the except clause lacks its `raise`, the error is swallowed.
_HookWrapper_except_no_raise(ev, x) ==
    CASE ev = "end"   -> [Cur EXCEPT !.pc = "post"]
      [] ev = "raise" -> [Cur EXCEPT !.pc = "post", !.pending = x]

\* except Exception as err: for f in self.hooks.post_failure: f(err, *args); raise
_HookWrapper_except(ev, x) ==
    CASE ev = "end"   -> [Cur EXCEPT !.pc = "post", !.pending = caught]
      [] ev = "raise" -> [Cur EXCEPT !.pc = "post", !.pending = x]

\* Faulty variant: an error of a post_success hook is caught and dropped.
_HookWrapper_else_dropped(ev, x) ==
    CASE ev = "end"   -> [Cur EXCEPT !.pc = "post"]
      [] ev = "raise" -> [Cur EXCEPT !.pc = "post"]

\* else: for f in self.hooks.post_success: f(r, *args)
_HookWrapper_else(ev, x) ==
    CASE ev = "end"   -> [Cur EXCEPT !.pc = "post"]
      [] ev = "raise" -> [Cur EXCEPT !.pc = "post", !.pending = x]

\* finally: for f in self.hooks.post: f(*args) / return r
_HookWrapper_finally(ev, x) ==
    CASE ev = "end"   -> [Cur EXCEPT !.pc = "done",
                                     !.outcome = IF pending # None
                                                 THEN Raised(pending)
                                                 ELSE Returned(r)]
      [] ev = "raise" -> [Cur EXCEPT !.pc = "done", !.pending = x,
                                     !.outcome = Raised(x)]

_HookWrapper_clause(p, ev, x) ==
    CASE p = "pre"          -> _HookWrapper_pre(ev, x)
      [] p = "call"         -> _HookWrapper_try(ev, x)
      [] p = "post_failure" -> _HookWrapper_except(ev, x)
      [] p = "post_success" -> _HookWrapper_else(ev, x)
      [] p = "post"         -> _HookWrapper_finally(ev, x)

_HookWrapper_list(s) == hooks[s]

_HookWrapper_item(e, argv, b0, b) == PlainItem(e, argv, b)

\* wrapper.hooks.<s>.append(callable) on a plain list of callables.
append(s) ==
    /\ impl \in {"HookWrapper", "_HookWrapper"}
    /\ NotRunning
    /\ nhooks < MaxHooks
    /\ LET h == nhooks + 1 IN
       /\ nhooks' = h
       /\ hooks' = [hooks EXCEPT ![s] = Append(@, Fn(h))]
    /\ RanOn("attach", s, <<>>, Returned(None))
    /\ UNCHANGED apart
    /\ UNCHANGED <<impl, held, actions>>

----------------------------------------------------------------------------
(* Before / After / Decorate (atb/functional/decorate.py) *)

\* The parameter of After / Decorate that acts at stage s.
ParamOf(s) ==
    CASE s = "pre"          -> "before"
      [] s = "post_success" -> "on_success"
      [] s = "post_failure" -> "on_failure"
      [] s = "post"         -> "do"

\* DoNothing(*args, **kwargs): pass
DoNothing == Ret(None)

\* Each stage of After / Decorate calls the one action of its parameter.
Action_list(s) == <<[k |-> "action", s |-> s]>>

\* The value / error the action given for a parameter produces.
ARes(param) == [t |-> "ares", v |-> param]
AErr(param) == [t |-> "exc", cls |-> "Exception", src |-> <<param, 0>>]

\* The action given for a parameter, doing b in this call.
ActionF(param, b) ==
    CASE b = "silent"  -> Ret(None)
      [] b = "returns" -> Ret(ARes(param))
      [] b = "raises"  -> Raise(AErr(param))

\* A parameter left at its default in arthoolbox/functional/core.py is bound
\* to DoNothing(), the value DoNothing returns: None.  None(*argv) calls
\* nothing and raises TypeError ('NoneType' object is not callable).
NoneCalled == Eff(<<>>, Raise(TypeError(0)))

\* action(*argv): the default of the parameter, or the action given.
Action_item(e, argv, b0, b) ==
    IF actions[e.s] = "DoNothing" /\ impl \in CoreCopies
    THEN NoneCalled
    ELSE Eff(<<CallRec(<<ParamOf(e.s), 0>>, argv)>>,
             IF actions[e.s] = "DoNothing" THEN DoNothing
             ELSE ActionF(ParamOf(e.s), b))

\* Faulty variant: an error of the guard is set aside and the call goes on.
Before_do_goes_on(ev, x) ==
    CASE ev = "end"   -> [Cur EXCEPT !.pc = "call"]
      [] ev = "raise" -> [Cur EXCEPT !.pc = "call", !.caught = x]

\* Before.__wrapper: do(*args) (an error leaves the wrapper)
Before_do(ev, x) ==
    CASE ev = "end"   -> [Cur EXCEPT !.pc = "call"]
      [] ev = "raise" -> [Cur EXCEPT !.pc = "done", !.pending = x,
                                     !.outcome = Raised(x)]

\* Before.__wrapper: return f(*args)
Before_return(ev, x) ==
    CASE ev = "ret" -> [Cur EXCEPT !.pc = "done", !.r = x,
                                   !.outcome = Returned(x)]
      [] OTHER      -> [Cur EXCEPT !.pc = "done", !.pending = x,
                                   !.outcome = Raised(x)]

Before_clause(p, ev, x) ==
    CASE p = "pre"  -> Before_do(ev, x)
      [] p = "call" -> Before_return(ev, x)

\* After.__wrapper: the arguments given to each action
After_argv(s) ==
    CASE s = "pre"          -> <<Arg(args)>>
      [] s = "post_failure" -> <<caught, Arg(args)>>
      [] s = "post_success" -> <<r, Arg(args)>>
      [] s = "post"         -> <<Arg(args)>>

\* Faulty variant: the try statement has no else clause, so on_success is never
\* called.
After_try_no_else(ev, x) ==
    CASE ev = "ret"            -> [Cur EXCEPT !.pc = "post", !.r = x]
      [] x.cls = "Exception"   -> [Cur EXCEPT !.pc = "post_failure",
                                              !.caught = x]
      [] OTHER                 -> [Cur EXCEPT !.pc = "post", !.pending = x]

\* try: r = f(*args) / except Exception as err: / else: / (finally:)
After_try(ev, x) ==
    CASE ev = "ret"            -> [Cur EXCEPT !.pc = "post_success", !.r = x]
      [] x.cls = "Exception"   -> [Cur EXCEPT !.pc = "post_failure",
                                              !.caught = x]
      [] OTHER                 -> [Cur EXCEPT !.pc = "post", !.pending = x]

\* Faulty variant: the except clause lacks its `raise`, the error is swallowed.
After_except_no_raise(ev, x) ==
    CASE ev = "end"   -> [Cur EXCEPT !.pc = "post"]
      [] ev = "raise" -> [Cur EXCEPT !.pc = "post", !.pending = x]

\* except Exception as err: on_failure(err, *args); raise
After_except(ev, x) ==
    CASE ev = "end"   -> [Cur EXCEPT !.pc = "post", !.pending = caught]
      [] ev = "raise" -> [Cur EXCEPT !.pc = "post", !.pending = x]

\* else: on_success(r, *args)
After_else(ev, x) ==
    CASE ev = "end"   -> [Cur EXCEPT !.pc = "post"]
      [] ev = "raise" -> [Cur EXCEPT !.pc = "post", !.pending = x]

\* finally: do(*args) / return r
After_finally(ev, x) ==
    CASE ev = "end"   -> [Cur EXCEPT !.pc = "done",
                                     !.outcome = IF pending # None
                                                 THEN Raised(pending)
                                                 ELSE Returned(r)]
      [] ev = "raise" -> [Cur EXCEPT !.pc = "done", !.pending = x,
                                     !.outcome = Raised(x)]

After_clause(p, ev, x) ==
    CASE p = "pre"          -> Before_do(ev, x)
      [] p = "call"         -> After_try(ev, x)
      [] p = "post_failure" -> After_except(ev, x)
      [] p = "post_success" -> After_else(ev, x)
      [] p = "post"         -> After_finally(ev, x)

----------------------------------------------------------------------------
(* The invocations *)

\* The list the object under study iterates at stage s.
StageList(s) ==
    CASE impl = "Hookable"     -> Hookable_list(s)
      [] impl = "HookWrapper"  -> HookWrapper_list(s)
      [] impl = "_HookWrapper" -> _HookWrapper_list(s)
      [] OTHER                 -> Action_list(s)

\* The arguments it passes there.
StageArgv(s) ==
    CASE impl = "Hookable"     -> Hookable_argv(s)
      [] impl = "HookWrapper"  -> HookWrapper_argv(s)
      [] impl = "_HookWrapper" -> _HookWrapper_argv(s)
      [] OTHER                 -> After_argv(s)

\* What one turn of that iteration does.
StageItem(e, argv, b0, b) ==
    CASE impl = "Hookable"     -> Hookable_item(e, argv, b0, b)
      [] impl = "HookWrapper"  -> HookWrapper_item(e, argv, b0, b)
      [] impl = "_HookWrapper" -> _HookWrapper_item(e, argv, b0, b)
      [] OTHER                 -> Action_item(e, argv, b0, b)

\* Where control goes from p when the statement there ends (ev = "end"),
\* returns x ("ret") or raises x ("raise").
StageClause(p, ev, x) ==
    CASE impl = "Hookable"     -> Hookable_clause(p, ev, x)
      [] impl = "HookWrapper"  -> HookWrapper_clause(p, ev, x)
      [] impl = "_HookWrapper" -> _HookWrapper_clause(p, ev, x)
      [] impl = "Before"       -> Before_clause(p, ev, x)
      [] OTHER                 -> After_clause(p, ev, x)

\* A script tells what each stage does (b) or what each hook does (h).
BChoice(p) ==
    IF script = None THEN CallB
    ELSE IF "b" \in DOMAIN script THEN {script.b[p]}
    ELSE {script.h[HookOf(StageList(p)[idx])]}

\* An invocation of the object under study, one call at a time; first is
\* where its body starts.
Invocation(first) ==
    \/ /\ NotRunning
       /\ \E a \in ArgChoice :
             Frame("invoke", first, "pre", 1, a, <<>>, <<>>, None, None, None,
                   <<>>, None)
    \/ /\ Running("call")
       /\ \E o \in FChoice :
             LET call == <<CallRec(F, <<Arg(args)>>)>> IN
             IF o.t = "ret"
             THEN Move(StageClause("call", "ret", o.v), 1, call, <<>>)
             ELSE Move(StageClause("call", "raise", o.e), 1, call, <<o.e>>)
    \/ /\ op = "invoke" /\ pc \in Stages
       /\ IF idx > Len(StageList(pc))
          THEN Move(StageClause(pc, "end", None), 1, <<>>, <<>>)
          ELSE \E b0 \in NullaryFor(StageList(pc)[idx]), b \in BChoice(pc) :
                  LET it == StageItem(StageList(pc)[idx], StageArgv(pc),
                                      b0, b) IN
                  IF it.out.t = "raise"
                  THEN Move(StageClause(pc, "raise", it.out.e), 1, it.calls,
                            <<it.out.e>>)
                  ELSE Move(Cur, idx + 1, it.calls, <<>>)

\* Hookable.__call__
Hookable_call ==
    /\ impl = "Hookable"
    /\ UNCHANGED config
    /\ Invocation("pre")

\* HookWrapper.__call__
HookWrapper_call ==
    /\ impl = "HookWrapper"
    /\ UNCHANGED config
    /\ Invocation("pre")

\* _HookWrapper.__call__
_HookWrapper_call ==
    /\ impl = "_HookWrapper"
    /\ UNCHANGED config
    /\ Invocation("pre")

\* Before(f, do)(*args)
Before_call ==
    /\ impl = "Before"
    /\ UNCHANGED config
    /\ Invocation("pre")

\* After(f, on_success, on_failure, do)(*args)
After_call ==
    /\ impl = "After"
    /\ UNCHANGED config
    /\ Invocation("call")

\* Decorate(f, before, after_success, after_failure, after)(*args):
\* Before(f=After(f, do=after, on_success=after_success,
\*                on_failure=after_failure), do=before)
Decorate_call ==
    /\ impl = "Decorate"
    /\ UNCHANGED config
    /\ Invocation("pre")

\* After(...)(*args) of arthoolbox/functional/core.py
After_core_call ==
    /\ impl = "After_core"
    /\ UNCHANGED config
    /\ Invocation("call")

\* Decorate(...)(*args) of arthoolbox/functional/core.py
Decorate_core_call ==
    /\ impl = "Decorate_core"
    /\ UNCHANGED config
    /\ Invocation("pre")

----------------------------------------------------------------------------
(* HookList.__call__ (arthoolbox/hooks.py) *)

\* The locals of the running list call.
CurList == [pc |-> pc, idx |-> idx, results |-> results, errs |-> errs,
            outcome |-> outcome]

\* Faulty variant: an error of a hook is recorded and the comprehension goes on
\* with the next hook.
HookList_call_next_continue(it) ==
    CASE it.out.t = "raise" ->
           [CurList EXCEPT !.idx = idx + 1, !.errs = Append(errs, it.out.e)]
      [] it.out.t = "skip" ->
           [CurList EXCEPT !.idx = idx + 1]
      [] OTHER ->
           [CurList EXCEPT !.idx = idx + 1,
                           !.results = Append(results, it.out.v)]

\* [hook(*args) for hook in self.valid_hooks()] after the turn `it`: an
\* error leaves the comprehension at once, an entry passed over adds
\* nothing, a result is collected.
HookList_call_next(it) ==
    CASE it.out.t = "raise" ->
           [CurList EXCEPT !.pc = "done", !.errs = Append(errs, it.out.e),
                           !.outcome = Raised(it.out.e)]
      [] it.out.t = "skip" ->
           [CurList EXCEPT !.idx = idx + 1]
      [] OTHER ->
           [CurList EXCEPT !.idx = idx + 1,
                           !.results = Append(results, it.out.v)]

\* Faulty variant: an entry found expired during the invoke is removed from the
\* list on the spot.
HookList_call_prunes ==
    /\ impl = "Hookable"
    /\ UNCHANGED <<impl, held, nhooks, actions, other, script, memo>>
    /\ \/ /\ NotRunning
          /\ hooks' = hooks
          /\ \E s \in Stages, a \in Args :
                Frame("list", "list", s, 1, a, <<>>, <<>>, None, None, None,
                      <<>>, None)
       \/ /\ op = "list" /\ pc = "list"
          /\ IF idx > Len(hooks[lst])
             THEN /\ hooks' = hooks
                  /\ Frame("list", "done", lst, idx, args, trace, results, r,
                           caught, pending, errs, Returned(ListOf(results)))
             ELSE \E b0 \in NullaryFor(hooks[lst][idx]), b \in CallB :
                  LET it == HookList_call_item(hooks, hooks[lst][idx],
                                               <<Arg(args)>>, b0, b)
                      n  == HookList_call_next(it) IN
                  IF it.out.t = "skip"
                  THEN /\ hooks' = [hooks EXCEPT ![lst] =
                                      SubSeq(@, 1, idx - 1)
                                      \o SubSeq(@, idx + 1, Len(@))]
                       /\ Frame("list", "list", lst, idx, args,
                                trace \o it.calls, results, r, caught,
                                pending, errs, outcome)
                  ELSE /\ hooks' = hooks
                       /\ Frame("list", n.pc, lst, n.idx, args,
                                trace \o it.calls, n.results, r, caught,
                                pending, n.errs, n.outcome)

\* return [hook(*args) for hook in self.valid_hooks()]
HookList_call ==
    /\ impl = "Hookable"
    /\ UNCHANGED config
    /\ \/ /\ NotRunning
          /\ \E s \in Stages, a \in Args :
                Frame("list", "list", s, 1, a, <<>>, <<>>, None, None, None,
                      <<>>, None)
       \/ /\ op = "list" /\ pc = "list"
          /\ IF idx > Len(hooks[lst])
             THEN Frame("list", "done", lst, idx, args, trace, results, r,
                        caught, pending, errs, Returned(ListOf(results)))
             ELSE \E b0 \in NullaryFor(hooks[lst][idx]), b \in CallB :
                  LET it == HookList_call_item(hooks, hooks[lst][idx],
                                               <<Arg(args)>>, b0, b)
                      n  == HookList_call_next(it) IN
                  Frame("list", n.pc, lst, n.idx, args, trace \o it.calls,
                        n.results, r, caught, pending, n.errs, n.outcome)

\* The same call taken as a whole on list L of the lists hk, from position i
\* on: bs0[h] is what a call of hook h with no argument does, bs[h] what a
\* call of it with argv does.
RECURSIVE HookList_call_from(_, _, _, _, _, _, _, _)
HookList_call_from(hk, L, i, argv, bs0, bs, calls, res) ==
    IF i > Len(L) THEN Eff(calls, Ret(ListOf(res)))
    ELSE LET h  == HookOf(L[i])
             it == HookList_call_item(hk, L[i], argv,
                                      IF h = 0 THEN "TypeError" ELSE bs0[h],
                                      IF h = 0 THEN "silent" ELSE bs[h]) IN
         IF it.out.t = "raise" THEN Eff(calls \o it.calls, it.out)
         ELSE HookList_call_from(hk, L, i + 1, argv, bs0, bs,
                                 calls \o it.calls,
                                 IF it.out.t = "skip" THEN res
                                 ELSE Append(res, it.out.v))

----------------------------------------------------------------------------
(* Specification *)

Next ==
    \/ \E s \in Stages : \E h \in 1..MaxHooks : attach_hook(s, h)
    \/ \E h \in 1..MaxHooks : release(h)
    \/ \E s \in Stages : cleanup_list(s)
    \/ \E s \in Stages : HookList_repr(s)
    \/ Hookable_cleanup
    \/ HookList_call
    \/ Hookable_call
    \/ \E s \in Stages : append(s)
    \/ HookWrapper_call
    \/ _HookWrapper_call
    \/ Before_call
    \/ After_call
    \/ Decorate_call
    \/ After_core_call
    \/ Decorate_core_call
    \/ Return

Spec == Init /\ [][Next]_vars

----------------------------------------------------------------------------
(* Decorate and a HookWrapper with one hook per stage, on the same inputs *)

CallKinds == {"ret", "Exception", "BaseException"}

Scripts == [a : Args, f : CallKinds, b : [Stages -> CallB]]

\* A HookWrapper to which one callable per stage was appended, the callable
\* of a stage being named after the stage.
TwinHooks == [s \in Stages |-> <<Fn(s)>>]

\* Decorate(f, before, after_success, after_failure, after) with each action
\* given or left at its default, and the inputs of the run told in advance
\* (a default action returns None whatever it is called with).
InitPair ==
    /\ impl = "Decorate"
    /\ hooks = EmptyHooks
    /\ held = {}
    /\ nhooks = 0
    /\ actions \in [Stages -> {"DoNothing", "given"}]
    /\ other = EmptyHooks
    /\ script \in Scripts
    /\ \A s \in Stages : actions[s] = "DoNothing" => script.b[s] = "silent"
    /\ memo = None
    /\ op = "init"
    /\ pc = "idle"
    /\ lst = "pre"
    /\ idx = 1
    /\ args = 1
    /\ trace = <<>>
    /\ results = <<>>
    /\ r = None
    /\ caught = None
    /\ pending = None
    /\ errs = <<>>
    /\ outcome = None

\* The invocation of Decorate is over: what it did is kept, and the same
\* inputs go to a HookWrapper around the same callable whose lists hold the
\* same four actions, one per stage.
Switch ==
    /\ impl = "Decorate"
    /\ script # None
    /\ memo = None
    /\ op = "invoke" /\ pc = "done"
    /\ memo' = [trace |-> trace, errs |-> errs, outcome |-> outcome]
    /\ impl' = "HookWrapper"
    /\ hooks' = TwinHooks
    /\ Frame("init", "idle", "pre", 1, 1, <<>>, <<>>, None, None, None, <<>>,
             None)
    /\ UNCHANGED <<held, nhooks, actions, other, script>>

NextPair ==
    \/ Decorate_call
    \/ Switch
    \/ HookWrapper_call

SpecPair == InitPair /\ [][NextPair]_vars

----------------------------------------------------------------------------
(* The three wrappers on the same hooks and the same inputs *)

HookScripts == [a : Args, f : CallKinds, h : [1..MaxHooks -> CallB]]

\* The same hooks, stage by stage, appended to the plain lists of a
\* HookWrapper / _HookWrapper.
AsPlain(hk) ==
    [s \in Stages |-> [i \in 1..Len(hk[s]) |-> Fn(HookOf(hk[s][i]))]]

\* A Hookable, with the inputs of the runs told in advance.
InitTrio ==
    /\ impl = "Hookable"
    /\ hooks = EmptyHooks
    /\ held = {}
    /\ nhooks = 0
    /\ actions = [s \in Stages |-> "DoNothing"]
    /\ other = EmptyHooks
    /\ script \in HookScripts
    /\ memo = None
    /\ op = "init"
    /\ pc = "idle"
    /\ lst = "pre"
    /\ idx = 1
    /\ args = 1
    /\ trace = <<>>
    /\ results = <<>>
    /\ r = None
    /\ caught = None
    /\ pending = None
    /\ errs = <<>>
    /\ outcome = None

\* The invocation is over: what the Hookable did is kept, and the same
\* inputs go to the next wrapper class around the same callable, with the
\* same hooks in the same stages (HookWrapper after Hookable, _HookWrapper
\* after HookWrapper).
Rewrap ==
    /\ impl \in {"Hookable", "HookWrapper"}
    /\ script # None
    /\ (memo = None) = (impl = "Hookable")
    /\ op = "invoke" /\ pc = "done"
    /\ memo' = IF memo = None
               THEN [trace |-> trace, errs |-> errs, outcome |-> outcome]
               ELSE memo
    /\ impl' = IF impl = "Hookable" THEN "HookWrapper" ELSE "_HookWrapper"
    /\ hooks' = AsPlain(hooks)
    /\ Frame("init", "idle", "pre", 1, 1, <<>>, <<>>, None, None, None, <<>>,
             None)
    /\ UNCHANGED <<held, nhooks, actions, other, script>>

NextTrio ==
    \/ \E s \in Stages : \E h \in 1..MaxHooks : attach_hook(s, h)
    \/ Hookable_call
    \/ Rewrap
    \/ HookWrapper_call
    \/ _HookWrapper_call
    \/ Return

SpecTrio == InitTrio /\ [][NextTrio]_vars

----------------------------------------------------------------------------
(* Hooks that change the post list while the invocation runs *)

\* A pre hook of the running invocation has been called and the pre stage
\* is not over: what follows is done by that hook while it runs.  memo
\* keeps what was done and the post list as it was before.
InPreHook ==
    /\ Running("pre")
    /\ idx > 1
    /\ script = None
    /\ memo = None

\* The pre hook calls wrapper.hooks.post.attach_hook(obj) and keeps the Hook
\* returned (a new one for a callable, h itself for a Hook it holds).
inside_attach(h) ==
    /\ impl = "Hookable"
    /\ InPreHook
    /\ Entries < MaxHooks
    /\ \/ h \in held /\ nhooks' = nhooks
       \/ h = nhooks + 1 /\ nhooks < MaxHooks /\ nhooks' = h
    /\ hooks' = [hooks EXCEPT !["post"] = Append(@, WeakRef(h))]
    /\ held' = held \cup {h}
    /\ memo' = [kind |-> "attach", h |-> h, post |-> hooks["post"]]
    /\ UNCHANGED <<impl, actions, other, script>>
    /\ UNCHANGED frame

\* The pre hook drops the handle of a Hook of the post list (del hook).
inside_release(h) ==
    /\ impl = "Hookable"
    /\ InPreHook
    /\ h \in held
    /\ \E i \in 1..Len(hooks["post"]) : hooks["post"][i] = WeakRef(h)
    /\ held' = held \ {h}
    /\ memo' = [kind |-> "release", h |-> h, post |-> hooks["post"]]
    /\ UNCHANGED <<impl, hooks, nhooks, actions, other, script>>
    /\ UNCHANGED frame

\* The pre hook calls wrapper.hooks.post.append(callable).
inside_append ==
    /\ impl = "HookWrapper"
    /\ InPreHook
    /\ nhooks < MaxHooks
    /\ nhooks' = nhooks + 1
    /\ hooks' = [hooks EXCEPT !["post"] = Append(@, Fn(nhooks + 1))]
    /\ memo' = [kind |-> "attach", h |-> nhooks + 1, post |-> hooks["post"]]
    /\ UNCHANGED <<impl, held, actions, other, script>>
    /\ UNCHANGED frame

\* The pre hook calls wrapper.hooks.post.remove(callable) for the i-th
\* callable of the post list.
inside_remove(i) ==
    /\ impl = "HookWrapper"
    /\ InPreHook
    /\ i \in 1..Len(hooks["post"])
    /\ hooks' = [hooks EXCEPT !["post"] =
                   SubSeq(@, 1, i - 1) \o SubSeq(@, i + 1, Len(@))]
    /\ memo' = [kind |-> "remove", h |-> hooks["post"][i].h,
                post |-> hooks["post"]]
    /\ UNCHANGED <<impl, held, nhooks, actions, other, script>>
    /\ UNCHANGED frame

InitInside ==
    /\ Init
    /\ impl \in {"Hookable", "HookWrapper"}

NextInside ==
    \/ \E s \in Stages : \E h \in 1..MaxHooks : attach_hook(s, h)
    \/ \E s \in Stages : append(s)
    \/ Hookable_call
    \/ HookWrapper_call
    \/ \E h \in 1..MaxHooks : inside_attach(h)
    \/ \E h \in 1..MaxHooks : inside_release(h)
    \/ inside_append
    \/ \E i \in 1..MaxHooks : inside_remove(i)
    \/ Return

SpecInside == InitInside /\ [][NextInside]_vars

----------------------------------------------------------------------------
(* Two threads invoking the same wrapper *)

\* The locals of the invocation of the running thread: args, r, err and
\* where its body is; with them the calls it made and what it gave back.
Locals ==
    [op |-> op, pc |-> pc, lst |-> lst, idx |-> idx, args |-> args,
     trace |-> trace, results |-> results, r |-> r, caught |-> caught,
     pending |-> pending, errs |-> errs, outcome |-> outcome]

\* A thread that is not in the wrapper.
IdleLocals ==
    [op |-> "init", pc |-> "idle", lst |-> "pre", idx |-> 1, args |-> 1,
     trace |-> <<>>, results |-> <<>>, r |-> None, caught |-> None,
     pending |-> None, errs |-> <<>>, outcome |-> None]

\* Faulty variant: the result and the caught error are kept on the wrapper,
\* where the other thread overwrites them.
Resume_shared_result(fr) ==
    Frame(fr.op, fr.pc, fr.lst, fr.idx, fr.args, fr.trace, fr.results, r,
          caught, fr.pending, fr.errs, fr.outcome)

\* A thread goes on with its own frame: args, r and err are local variables
\* of __call__.
Resume(fr) ==
    Frame(fr.op, fr.pc, fr.lst, fr.idx, fr.args, fr.trace, fr.results, fr.r,
          fr.caught, fr.pending, fr.errs, fr.outcome)

\* The hooks are attached before the second thread exists.
setup_attach(s, h) == memo = None /\ attach_hook(s, h)

setup_append(s) == memo = None /\ append(s)

\* A second thread is started; memo keeps the frame of the thread that is
\* not running.
Fork ==
    /\ memo = None
    /\ script = None
    /\ NotRunning
    /\ memo' = IdleLocals
    /\ UNCHANGED <<impl, hooks, held, nhooks, actions, other, script>>
    /\ UNCHANGED frame

\* The interpreter switches to the other thread, between two calls.
Yield ==
    /\ memo # None
    /\ "op" \in DOMAIN memo
    /\ memo' = Locals
    /\ Resume(memo)
    /\ UNCHANGED <<impl, hooks, held, nhooks, actions, other, script>>

InitThreads ==
    /\ Init
    /\ impl \in {"Hookable", "HookWrapper"}

NextThreads ==
    \/ \E s \in Stages : \E h \in 1..MaxHooks : setup_attach(s, h)
    \/ \E s \in Stages : setup_append(s)
    \/ Fork
    \/ Yield
    \/ Hookable_call
    \/ HookWrapper_call
    \/ Return

SpecThreads == InitThreads /\ [][NextThreads]_vars

----------------------------------------------------------------------------
(* Two wrappers *)

\* Two wrappers of the same class, each constructed with its own Hooks():
\* the caller works on one of them at a time, and turns to the other one
\* between two operations.
Swap ==
    /\ impl \in {"Hookable", "HookWrapper", "_HookWrapper"}
    /\ NotRunning
    /\ hooks' = other
    /\ other' = hooks
    /\ UNCHANGED <<impl, held, nhooks, actions, script, memo>>
    /\ UNCHANGED frame

InitTwo ==
    /\ Init
    /\ impl \in {"Hookable", "HookWrapper", "_HookWrapper"}

NextTwo ==
    \/ \E s \in Stages : \E h \in 1..MaxHooks : attach_hook(s, h)
    \/ \E h \in 1..MaxHooks : release(h)
    \/ \E s \in Stages : cleanup_list(s)
    \/ Hookable_cleanup
    \/ \E s \in Stages : append(s)
    \/ Swap
    \/ Return

SpecTwo == InitTwo /\ [][NextTwo]_vars

----------------------------------------------------------------------------
(* Vocabulary of the properties *)

Wrappers == {"Hookable", "_HookWrapper", "HookWrapper"}

Done == op = "invoke" /\ pc = "done"

\* Every entry of list s is what attaching stored: a weak reference to a
\* Hook (HookList) or the callable itself (plain list).
AsAttachedIn(s) == \A i \in 1..Len(hooks[s]) : "k" \in DOMAIN hooks[s][i]

AsAttached == \A s \in Stages : AsAttachedIn(s)

IsLive(e) == "k" \in DOMAIN e /\ (e.k = "fn" \/ Alive(e.h))

\* The hooks of list s whose handle is alive, in attachment order.
Live(s) == SelectSeq(hooks[s], IsLive)

\* The first n entries of list s that are alive.
LiveUpTo(s, n) == SelectSeq(SubSeq(hooks[s], 1, n), IsLive)

CallsIn(es, argv) ==
    [i \in 1..Len(es) |-> CallRec(<<"hook", es[i].h>>, argv)]

\* Each live hook of list s called once with argv, in attachment order.
CallsOf(s, argv) == CallsIn(Live(s), argv)

ArgvA == <<Arg(args)>>

FCall == CallRec(F, ArgvA)

FCalls == Cardinality({i \in 1..Len(trace) : trace[i].fn = F})

LastErr == errs[Len(errs)]

\* The wrapped callable was called and raised (errs starts with its error).
FFailed == errs # <<>> /\ errs[1] \in {FErr(args), FBase(args)}

\* Error e was raised by a hook of list s.
ErrFrom(e, s) ==
    \E i \in 1..Len(hooks[s]) :
       "k" \in DOMAIN hooks[s][i] /\ e = HErr(hooks[s][i].h)

----------------------------------------------------------------------------
(* C1 *)

----------------------------------------------------------------------------
(* C2 *)

\* C2: a step of the pre stage in which a pre hook raises ends the
\* invocation at once: the caller receives exactly that error, the callable
\* is not called, and (hooks as attached) the calls made are those of the
\* live pre hooks up to and including the raising one, each with A; no
\* post_success, post_failure or post hook was called.
C2_PreRaise ==
    [][(impl \in Wrappers /\ Running("pre") /\ errs' # errs)
         => /\ pc' = "done"
            /\ errs' = <<outcome'.e>>
            /\ outcome'.t = "raise"
            /\ FCall \notin {trace'[i] : i \in 1..Len(trace')}
            /\ AsAttached
                 => /\ outcome' = Raised(HErr(hooks["pre"][idx].h))
                    /\ trace' = CallsIn(LiveUpTo("pre", idx), ArgvA)]_vars

\* The second pre hook raised after the first returned; the post list is
\* not consulted although the invocation is over.
C2_Witness ==
    /\ impl = "Hookable" /\ Done /\ AsAttached
    /\ Len(hooks["pre"]) = 2 /\ Len(trace) = 2
    /\ outcome = Raised(HErr(hooks["pre"][2].h))

----------------------------------------------------------------------------
(* C3 *)

----------------------------------------------------------------------------
(* C4 *)

\* C4: once the callable has been called, control always reaches the start
\* of the post stage (never the end of the invocation directly), whether
\* the callable returned or raised and whether or not a post_success or
\* post_failure hook raised; the post stage is never left for an earlier
\* stage nor started again; and when it ends without a post hook raising,
\* the last calls made are those of every live post hook, once each.
C4_PostOnce ==
    [][(impl \in Wrappers /\ op = "invoke")
         => /\ pc = "call" => pc' \in {"post_success", "post_failure", "post"}
            /\ pc \in {"post_success", "post_failure"}
                 => \/ pc' = pc /\ idx' = idx + 1
                    \/ pc' = "post"
            /\ (pc # "post" /\ pc' = "post")
                 => idx' = 1 /\ pc \in {"call", "post_success", "post_failure"}
            /\ pc = "post"
                 => \/ pc' = "post" /\ idx' = idx + 1
                    \/ pc' = "done"
            /\ (pc = "post" /\ pc' = "done" /\ errs' = errs /\ AsAttached)
                 => /\ idx = Len(hooks["post"]) + 1
                    /\ Len(trace') >= Len(Live("post"))
                    /\ SubSeq(trace', Len(trace') - Len(Live("post")) + 1,
                              Len(trace')) = CallsOf("post", ArgvA)]_vars

\* A post_success hook raised and the post hook was called all the same.
C4_Witness ==
    /\ impl = "Hookable" /\ Done /\ AsAttached
    /\ Len(hooks["post_success"]) = 1 /\ Len(Live("post")) = 1
    /\ errs = <<HErr(hooks["post_success"][1].h)>>
    /\ Len(trace) = 3
    /\ trace[3] = CallRec(<<"hook", hooks["post"][1].h>>, ArgvA)

----------------------------------------------------------------------------
(* C5 *)

\* C5 as stated: whenever the wrapped callable fails with E, the caller
\* receives E, also when a post_failure hook or a post hook raises
\* afterwards.
C5_OriginalNeverReplaced ==
    (impl \in Wrappers /\ Done /\ FFailed) => outcome = Raised(errs[1])

\* C5, amended: a failure of the wrapped callable is never swallowed: the
\* invocation ends in a failure, never in a normal return, and the caller
\* receives E itself when no post_failure hook and no post hook raises
\* afterwards.
C5_NeverSwallowed ==
    (impl \in Wrappers /\ Done /\ FFailed)
       => /\ outcome.t = "raise"
          /\ Len(errs) = 1 => outcome = Raised(errs[1])

\* The callable raised E, the post_failure hook and the post hook were
\* called and returned, and the caller received E.
C5_Witness ==
    /\ impl = "HookWrapper" /\ Done /\ errs = <<FErr(args)>>
    /\ Len(hooks["post_failure"]) = 1 /\ Len(hooks["post"]) = 1
    /\ Len(trace) = 3
    /\ outcome = Raised(FErr(args))

----------------------------------------------------------------------------
(* C6 *)

\* C6: when the callable fails and a post_failure hook and/or a post hook
\* fails afterwards, the invocation ends in a failure and the caller
\* receives the error raised last: the post hook's error when a post hook
\* raised, otherwise the post_failure hook's error.
C6_LastRaisedWins ==
    (impl \in Wrappers /\ Done /\ FFailed /\ Len(errs) >= 2)
       => /\ outcome = Raised(LastErr)
          /\ AsAttached =>
               IF \E j \in 2..Len(errs) : ErrFrom(errs[j], "post")
               THEN ErrFrom(outcome.e, "post")
               ELSE ErrFrom(outcome.e, "post_failure")

\* The callable, then a post_failure hook, then a post hook raised: the
\* caller received the post hook's error.
C6_Witness ==
    /\ impl = "Hookable" /\ Done /\ AsAttached /\ FFailed /\ Len(errs) = 3
    /\ ErrFrom(errs[2], "post_failure")
    /\ ErrFrom(outcome.e, "post")

----------------------------------------------------------------------------
(* C7 *)

\* C7 as stated: for After and Decorate, whenever f fails with the
\* Exception E, on_failure is called with (E, A), then do with A, and the
\* caller receives E itself, whatever on_failure and do do.
C7_OriginalErrorFidelity ==
    (impl \in {"After", "Decorate"} /\ Done /\ errs # <<>>
       /\ errs[1] = FErr(args))
       => /\ outcome = Raised(FErr(args))
          /\ Len(trace) >= 3
          /\ SubSeq(trace, Len(trace) - 2, Len(trace))
               = <<FCall,
                   CallRec(<<"on_failure", 0>>, <<FErr(args), Arg(args)>>),
                   CallRec(<<"do", 0>>, ArgvA)>>

----------------------------------------------------------------------------
(* C8 *)

\* C8: a step of the post_success stage in which a hook raises X leaves
\* the stage at once (the remaining post_success hooks are not called) for
\* the start of the post stage, with X in flight; and an invocation whose
\* callable returned R and in which a hook raised never returns R: the
\* caller receives the error raised last, X when no post hook raises.
C8_PostSuccessRaise ==
    /\ [][(impl \in Wrappers /\ Running("post_success") /\ errs' # errs)
            => /\ pc' = "post" /\ idx' = 1
               /\ errs = <<>> /\ errs' = <<pending'>>
               /\ outcome' = None
               /\ AsAttached
                    => /\ pending' = HErr(hooks["post_success"][idx].h)
                       /\ trace' = CallsOf("pre", ArgvA) \o <<FCall>>
                            \o CallsIn(LiveUpTo("post_success", idx),
                                       <<r, Arg(args)>>)]_vars
    /\ [][(impl \in Wrappers /\ Running("post") /\ pc' = "done"
             /\ r # None /\ errs' # <<>>)
            => outcome' = Raised(errs'[Len(errs')])]_vars

\* The first of two post_success hooks raised: the second was not called
\* and the caller received the first one's error.
C8_Witness ==
    /\ impl = "Hookable" /\ Done /\ AsAttached
    /\ Len(Live("post_success")) = 2
    /\ Len(trace) = 2
    /\ outcome = Raised(HErr(hooks["post_success"][1].h))

----------------------------------------------------------------------------
(* C9 *)

\* C9: an invocation calls the wrapped callable at most once; it has
\* called it exactly once as soon as the pre stage is over without a pre
\* hook raising, whatever the callable and the later hooks do; and it has
\* not called it only when a pre hook raised (the one error of the
\* invocation, which the caller receives).
C9_CalledOnce ==
    (impl \in Wrappers /\ op = "invoke")
       => /\ FCalls <= 1
          /\ pc \in {"post_success", "post_failure", "post"} => FCalls = 1
          /\ pc \in {"pre", "call"} => FCalls = 0
          /\ pc = "done"
               => \/ FCalls = 1
                  \/ FCalls = 0 /\ Len(errs) = 1 /\ outcome = Raised(errs[1])
                     /\ errs[1] \notin {FErr(args), FBase(args)}

\* The callable raised, a post_failure hook raised too, and the callable
\* was called once.
C9_Witness ==
    /\ impl = "_HookWrapper" /\ Done /\ FFailed /\ Len(errs) = 2
    /\ FCalls = 1

----------------------------------------------------------------------------
(* C10 *)

\* C10: a HookList whose entries are all as attach_hook stored them (no
\* cleanup has run on it), called with A: calls every hook whose handle is
\* alive, in attachment order, each once with A; passes over the expired
\* ones without raising (it raises only an error that a live hook raised);
\* and, when no hook raises, returns the hooks' results in that order.
C10_ListInvoke ==
    (impl = "Hookable" /\ op = "list" /\ pc = "done" /\ AsAttachedIn(lst))
       => IF errs = <<>>
          THEN /\ trace = CallsOf(lst, ArgvA)
               /\ outcome = Returned(ListOf(results))
               /\ Len(results) = Len(Live(lst))
               /\ \A i \in 1..Len(results) :
                     results[i] \in {HRes(Live(lst)[i].h), None}
          ELSE /\ outcome = Raised(errs[1])
               /\ Len(trace) >= 1
               /\ Len(trace) <= Len(Live(lst))
               /\ trace = CallsIn(SubSeq(Live(lst), 1, Len(trace)), ArgvA)
               /\ errs = <<HErr(Live(lst)[Len(trace)].h)>>

\* A list of two hooks, the first expired: the call passed over it, called
\* the second and returned its result.
C10_Witness ==
    /\ impl = "Hookable" /\ op = "list" /\ pc = "done"
    /\ Len(hooks[lst]) = 2 /\ AsAttachedIn(lst)
    /\ ~Alive(hooks[lst][1].h) /\ Alive(hooks[lst][2].h)
    /\ trace = <<CallRec(<<"hook", hooks[lst][2].h>>, ArgvA)>>
    /\ outcome = Returned(ListOf(<<HRes(hooks[lst][2].h)>>))

----------------------------------------------------------------------------
(* Vocabulary of the HookList properties *)

\* The hooks whose handle the caller has released.
Released == (1..nhooks) \ held

\* The hooks the entries of L stand for, in order.
HookIds(L) == [i \in 1..Len(L) |-> HookOf(L[i])]

IsHeldId(h) == h \in held

\* The entries of list s whose hook's handle is held, in order.
HeldIn(s) == SelectSeq(HookIds(hooks[s]), IsHeldId)

\* Hook ids h, each called once with argv, in order.
CallsOfIds(ids, argv) ==
    [i \in 1..Len(ids) |-> CallRec(<<"hook", ids[i]>>, argv)]

ListDone == op = "list" /\ pc = "done"

----------------------------------------------------------------------------
(* C11 *)

\* C11 as stated: once the handle of some hook has been released, (a) a
\* call of a list calls no released hook, raises nothing but an error that
\* one of the hooks it called raised, and calls the hooks whose handle is
\* held in their order, each with the arguments of the call; (b) a cleanup
\* of a list that stores an entry of a released hook returns normally and
\* leaves exactly the entries of the held hooks, in their order.
C11_ReleasedHookExcluded ==
    [][/\ (Released # {} /\ ~ListDone /\ ListDone')
            => /\ \A i \in 1..Len(trace') :
                     /\ trace'[i].fn[2] \in held
                     /\ trace'[i].argv = <<Arg(args')>>
               /\ errs' # <<>>
                    => \E i \in 1..Len(trace') :
                          errs'[1] = HErr(trace'[i].fn[2])
               /\ errs' = <<>>
                    => trace' = CallsOfIds(HeldIn(lst'), <<Arg(args')>>)
       /\ (op' = "cleanup" /\ pc = "idle" /\ pc' = "done"
             /\ \E i \in 1..Len(hooks[lst']) :
                   HookOf(hooks[lst'][i]) \in Released)
            => /\ outcome' = Returned(None)
               /\ HookIds(hooks'[lst']) = HeldIn(lst')]_vars

----------------------------------------------------------------------------
(* C12 *)

\* C12 as stated: in the state a cleanup has just left (of one list, or of
\* the wrapper's four lists), a second cleanup of the same, whatever the
\* hooks do when it calls them, leaves the stored entries as they are, and
\* with them the valid hooks and their order.
C12_CleanupIdempotent ==
    /\ (op = "cleanup" /\ pc = "done" /\ outcome = Returned(None))
          => \A bs \in NullaryChoices(hooks) :
                /\ HookList_cleanup(hooks, lst, bs).hooks = hooks
                /\ valid_hooks(HookList_cleanup(hooks, lst, bs).hooks, lst,
                               bs).out
                     = valid_hooks(hooks, lst, bs).out
    /\ (op = "cleanup_all" /\ pc = "done" /\ outcome = Returned(None))
          => \A bs \in NullaryChoices(hooks) :
                Hookable_cleanup_from(hooks, 1, <<>>, bs).hooks = hooks

----------------------------------------------------------------------------
(* C13 *)

\* C13 as stated: whatever attach, release, cleanup and call operations
\* came before, a call of a list calls only hooks whose handle is held at
\* that moment, and, when no hook raises, it calls every hook of the list
\* whose handle is held.
C13_ValidityAtEachInvoke ==
    ListDone
       => /\ \A i \in 1..Len(trace) : trace[i].fn[2] \in held
          /\ errs = <<>>
               => \A j \in 1..Len(hooks[lst]) :
                     HookOf(hooks[lst][j]) \in held
                        => \E i \in 1..Len(trace) :
                              trace[i].fn = <<"hook", HookOf(hooks[lst][j])>>

----------------------------------------------------------------------------
(* C14 *)

\* C14 as stated: the list owns the callables attached to it, so a call of
\* the list in which no hook raises calls every hook stored in it, with
\* the arguments of the call, whether or not the caller kept the handles.
C14_ListOwnsCallable ==
    (ListDone /\ errs = <<>>)
       => trace = CallsOfIds(HookIds(hooks[lst]), <<Arg(args)>>)

\* C14, amended: the list does not own what is attached to it.  attach_hook
\* appends a weak reference to the Hook it returns, which the caller then
\* holds; a call of a list calls a hook only while the Hook object is alive;
\* and a call of a list that holds its entries as attach_hook stored them
\* calls, when no hook raises, exactly the hooks whose Hook object is alive:
\* a hook whose handle was discarded, and that no list stores as an object,
\* is passed over.
C14_ListHoldsWeakly ==
    /\ [][(op' = "attach" /\ pc = "idle" /\ pc' = "done"
             /\ impl = "Hookable")
            => /\ outcome'.v.t = "Hook"
               /\ outcome'.v.h \in held'
               /\ Len(hooks'[lst']) = Len(hooks[lst']) + 1
               /\ hooks'[lst'][Len(hooks'[lst'])] = WeakRef(outcome'.v.h)]_vars
    /\ [](ListDone
            => /\ \A i \in 1..Len(trace) : Alive(trace[i].fn[2])
               /\ (AsAttachedIn(lst) /\ errs = <<>>)
                    => trace = CallsOf(lst, <<Arg(args)>>))

\* The one callable attached was never attached again, its handle was
\* discarded, and the call of its list called nothing.
C14_Witness ==
    /\ ListDone /\ nhooks = 1 /\ held = {}
    /\ hooks[lst] = <<WeakRef(1)>>
    /\ trace = <<>>
    /\ outcome = Returned(ListOf(<<>>))

----------------------------------------------------------------------------
(* C15 *)

\* An entry of a HookList that an invoke reaches a hook through: a weak
\* reference whose Hook is alive, or the Hook itself.
Reaches(e) == IF IsRef(e) THEN Alive(e.h) ELSE TRUE

\* The callables called so far, in order.
FnsOf(t) == [i \in 1..Len(t) |-> t[i].fn]

\* The callables of the entries es, in order.
FnsIn(es) == [i \in 1..Len(es) |-> <<"hook", HookOf(es[i])>>]

\* Position of a stage in the body of __call__.
Rank(p) ==
    CASE p = "pre"                            -> 1
      [] p = "call"                           -> 2
      [] p \in {"post_success", "post_failure"} -> 3
      [] p = "post"                           -> 4
      [] OTHER                                -> 5

\* C15: when a hook of a HookList raises during invoke, the invoke ends in
\* that very step with the hook's error and returns no result sequence; the
\* hooks called are those of the entries up to the raising one, each once in
\* attachment order (with the invoke's arguments when the entries are as
\* attached), and no entry after it is called.  In a wrapper a hook that
\* raises ends the iteration of its stage in that step: control leaves the
\* stage and an invocation never comes back to a stage it has left.
C15_RaisePropagates ==
    [][/\ (op = "list" /\ pc = "list" /\ errs' # errs) =>
             /\ pc' = "done"
             /\ idx' = idx /\ idx <= Len(hooks[lst])
             /\ Len(errs') = Len(errs) + 1 /\ SubSeq(errs', 1, Len(errs)) = errs
             /\ outcome' = Raised(LastErr')
             /\ results' = results
             /\ FnsOf(trace') =
                   FnsIn(SelectSeq(SubSeq(hooks[lst], 1, idx), Reaches))
             /\ AsAttachedIn(lst) =>
                   trace' = CallsIn(LiveUpTo(lst, idx), ArgvA)
       /\ (op = "list" /\ pc = "done") => (pc' = "idle" /\ trace' = <<>>)
       /\ (impl \in Wrappers /\ op = "invoke" /\ pc \in Stages
             /\ errs' # errs) =>
             /\ Rank(pc') > Rank(pc)
             /\ Len(trace') <= Len(trace) + 1
       /\ (impl \in Wrappers /\ op = "invoke" /\ op' = "invoke"
             /\ pc' # "idle") => Rank(pc') >= Rank(pc)
      ]_vars

\* A list of two live hooks whose first hook raised: the second was not
\* called and the caller received the first one's error.
C15_Witness ==
    /\ ListDone
    /\ hooks[lst] = <<WeakRef(1), WeakRef(2)>>
    /\ held = {1, 2}
    /\ trace = <<CallRec(<<"hook", 1>>, ArgvA)>>
    /\ errs = <<HErr(1)>>
    /\ outcome = Raised(HErr(1))

----------------------------------------------------------------------------
(* C16 *)

BeforeCall == CallRec(<<"before", 0>>, ArgvA)

\* C16: in Before and Decorate, when the before action raises, the decorated
\* call ends in that very step: the caller receives the action's error, and
\* the only call made is the one of the before action (the callable is not
\* called, nor after_success, after_failure or after).
C16_GuardRaise ==
    /\ [][(impl \in {"Before", "Decorate"} /\ Running("pre")
             /\ errs' # errs) =>
             /\ pc' = "done"
             /\ errs' = <<AErr("before")>>
             /\ outcome' = Raised(AErr("before"))
             /\ trace' = <<BeforeCall'>>
         ]_vars
    /\ []((impl \in {"Before", "Decorate"} /\ Done /\ errs # <<>>
             /\ errs[1] = AErr("before")) =>
             /\ outcome = Raised(AErr("before"))
             /\ trace = <<BeforeCall>>
             /\ FCalls = 0)

\* Decorate with four actions given, whose before action raised.
C16_Witness ==
    /\ impl = "Decorate"
    /\ Done
    /\ \A s \in Stages : actions[s] = "given"
    /\ errs = <<AErr("before")>>
    /\ trace = <<BeforeCall>>
    /\ outcome = Raised(AErr("before"))

----------------------------------------------------------------------------
(* C18 *)

OnSuccessCall == CallRec(<<"on_success", 0>>, <<Res(args), Arg(args)>>)

DoCall == CallRec(<<"do", 0>>, ArgvA)

\* C18: for After, when f(A) returns R and no action raises, the calls made
\* are exactly f(A), then on_success(R, A), then do(A), each once;
\* on_failure is not called, and the decorated call returns R.
C18_AfterSuccess ==
    (impl = "After" /\ Done /\ errs = <<>>) =>
       /\ trace = <<FCall, OnSuccessCall, DoCall>>
       /\ \A i \in 1..Len(trace) : trace[i].fn # <<"on_failure", 0>>
       /\ outcome = Returned(Res(args))
       /\ r = Res(args)

\* After with its three actions given, f having returned for argument 2.
C18_Witness ==
    /\ impl = "After"
    /\ Done
    /\ errs = <<>>
    /\ args = 2
    /\ \A s \in Stages \ {"pre"} : actions[s] = "given"
    /\ trace = <<FCall, OnSuccessCall, DoCall>>
    /\ outcome = Returned(Res(2))

----------------------------------------------------------------------------
(* C20 *)

\* The step is an attach_hook on list lst'.
AttachStep == impl = "Hookable" /\ pc = "idle" /\ op' = "attach"

\* Every entry of list s is a weak reference to a Hook whose handle is held.
AllHeldIn(s) ==
    \A i \in 1..Len(hooks[s]) : IsRef(hooks[s][i]) /\ hooks[s][i].h \in held

\* C20: attach_hook appends.  It returns a Hook, either a new one or one the
\* caller already held (the Hook it was given); the list it was called on is
\* the list before with one weak reference to the returned Hook added at the
\* end, so the entries attached earlier keep their places.  An invoke of a
\* list whose entries are as attached, every handle still held, calls the
\* hooks in the order of the list, that is in the order of attachment.
C20_AttachAppends ==
    /\ [][AttachStep =>
             /\ outcome'.t = "return" /\ outcome'.v.t = "Hook"
             /\ \/ outcome'.v.h = nhooks + 1 /\ nhooks' = nhooks + 1
                \/ outcome'.v.h \in held /\ nhooks' = nhooks
             /\ outcome'.v.h \in held'
             /\ Len(hooks'[lst']) = Len(hooks[lst']) + 1
             /\ SubSeq(hooks'[lst'], 1, Len(hooks[lst'])) = hooks[lst']
             /\ hooks'[lst'][Len(hooks'[lst'])] = WeakRef(outcome'.v.h)
         ]_vars
    /\ []((ListDone /\ AllHeldIn(lst) /\ errs = <<>>) =>
             trace = CallsIn(hooks[lst], ArgvA))

\* A list to which a callable, then the Hook returned for it, were attached:
\* the invoke called that hook twice.
C20_Witness ==
    /\ ListDone
    /\ nhooks = 1
    /\ held = {1}
    /\ hooks[lst] = <<WeakRef(1), WeakRef(1)>>
    /\ errs = <<>>
    /\ trace = <<CallRec(<<"hook", 1>>, ArgvA), CallRec(<<"hook", 1>>, ArgvA)>>

----------------------------------------------------------------------------
(* C19 *)

\* An entry through which a list reaches a hook: the callable itself, a Hook
\* itself, or a weak reference whose Hook is alive.
Valid(e) == IsLive(e) \/ ~IsRef(e)

\* The hooks list L holds that are valid, in order (what valid_hooks yields
\* and __repr__ shows).
ValidIn(L) == HookIds(SelectSeq(L, Valid))

\* The step is an attach or a cleanup on list lst'.
OneListStep == pc = "idle" /\ op' \in {"attach", "cleanup"}

\* C19: both wrappers start with four empty lists, and an attach or a
\* cleanup on one list of a wrapper leaves alone the other three lists of
\* that wrapper and the four lists of the other wrapper: the entries they
\* store and the valid hooks they hold are the same after it as before.
C19_ListsIndependent ==
    /\ hooks = EmptyHooks /\ other = EmptyHooks
    /\ [][OneListStep =>
             /\ \A t \in Stages \ {lst'} :
                   /\ hooks'[t] = hooks[t]
                   /\ ValidIn(hooks[t])' = ValidIn(hooks[t])
             /\ \A t \in Stages :
                   /\ other'[t] = other[t]
                   /\ ValidIn(other[t])' = ValidIn(other[t])
         ]_vars

----------------------------------------------------------------------------
(* C17 *)

\* The hook appended to a stage of the HookWrapper stands for the action
\* Decorate was given for that stage: calls and errors of the one are read
\* as calls and errors of the other.
AsAction(fn) == IF fn[1] = "hook" THEN <<ParamOf(fn[2]), 0>> ELSE fn

AsActionErr(e) ==
    IF e.t = "exc" /\ e.src[1] = "hook" THEN AErr(ParamOf(e.src[2])) ELSE e

AsActionCalls(t) ==
    [i \in 1..Len(t) |->
       CallRec(AsAction(t[i].fn),
               [j \in 1..Len(t[i].argv) |-> AsActionErr(t[i].argv[j])])]

AsActionErrs(es) == [i \in 1..Len(es) |-> AsActionErr(es[i])]

AsActionOutcome(o) ==
    IF o.t = "raise" THEN Raised(AsActionErr(o.e)) ELSE o

PairDone == impl = "HookWrapper" /\ memo # None /\ Done

\* C17: Decorate(f, before, after_success, after_failure, after) and a
\* HookWrapper around f holding exactly one hook per stage (before in pre,
\* after_success in post_success, after_failure in post_failure, after in
\* post), run on the same argument with f and the four actions doing the
\* same, make the same calls with the same arguments in the same order,
\* see the same errors raised, and end with the same result or error.
C17_DecorateAsWrapper ==
    PairDone =>
       /\ AsActionCalls(trace) = memo.trace
       /\ AsActionErrs(errs) = memo.errs
       /\ AsActionOutcome(outcome) = memo.outcome

\* Both runs are over, f raised an Exception and after_failure raised too:
\* four calls each, and the caller received after_failure's error.
C17_Witness ==
    /\ PairDone
    /\ \A s \in Stages : actions[s] = "given"
    /\ script.f = "Exception"
    /\ script.b["post_failure"] = "raises"
    /\ script.b["post"] = "returns"
    /\ Len(trace) = 4
    /\ Len(memo.trace) = 4
    /\ memo.outcome = Raised(AErr("on_failure"))
    /\ outcome = Raised(HErr("post_failure"))

----------------------------------------------------------------------------
(* C22 *)

\* C22: an invocation of a wrapper in which the callable returned R and no
\* hook raised returns exactly R, whatever the pre, post_success and post
\* hooks returned (a value of their own or None).
C22_ReturnsResult ==
    (impl \in Wrappers /\ Done /\ errs = <<>>) =>
       /\ outcome = Returned(Res(args))
       /\ outcome.v \notin {None, ListOf(<<>>)}
       /\ \A h \in 1..nhooks : outcome.v # HRes(h)

\* A Hookable whose post_success hook and post hook were both called, the
\* callable having returned for argument 2.
C22_Witness ==
    /\ impl = "Hookable"
    /\ Done
    /\ errs = <<>>
    /\ args = 2
    /\ hooks["post_success"] = <<WeakRef(1)>>
    /\ hooks["post"] = <<WeakRef(2)>>
    /\ held = {1, 2}
    /\ Len(trace) = 3
    /\ outcome = Returned(Res(2))

----------------------------------------------------------------------------
(* C23 *)

\* Calls of the invocation made the way the post_failure stage calls
\* (err, *args) and the way the post_success stage calls (r, *args).
FailureCalls ==
    {i \in 1..Len(trace) : Len(trace[i].argv) = 2 /\ trace[i].argv[1].t = "exc"}

SuccessCalls ==
    {i \in 1..Len(trace) : Len(trace[i].argv) = 2 /\ trace[i].argv[1].t # "exc"}

\* Where the callable was called in the invocation (0 when it was not).
FCallAt ==
    IF FCalls = 0 THEN 0 ELSE CHOOSE i \in 1..Len(trace) : trace[i].fn = F

\* The stages that may follow stage p in one invocation.
Follows(p) ==
    CASE p = "idle"         -> {"idle", "pre"}
      [] p = "pre"          -> {"pre", "call", "done"}
      [] p = "call"         -> {"post_success", "post_failure", "post"}
      [] p = "post_success" -> {"post_success", "post"}
      [] p = "post_failure" -> {"post_failure", "post"}
      [] p = "post"         -> {"post", "done"}
      [] OTHER              -> {"idle"}

\* C23: in an invocation of a wrapper the stages follow
\* pre, call, (post_success | post_failure), post.  The post_success stage is
\* entered only from the call, when the callable returned; the post_failure
\* stage only from the call, when it raised an Exception.  Calls with
\* (r, *args) are made only in the post_success stage and calls with
\* (err, *args) only in the post_failure stage, so an invocation never has
\* both, each comes after the call of the callable, and none is made once the
\* post stage has started.
C23_ExclusiveStages ==
    /\ [][(impl \in Wrappers /\ (op = "invoke" \/ op' = "invoke")) =>
             /\ pc' \in Follows(pc)
             /\ pc' = "post_success" =>
                   /\ pc \in {"call", "post_success"}
                   /\ r' = Res(args) /\ caught' = None /\ pending' = None
             /\ pc' = "post_failure" =>
                   /\ pc \in {"call", "post_failure"}
                   /\ caught' = FErr(args) /\ r' = None
             /\ (SuccessCalls' \ SuccessCalls # {}) => pc = "post_success"
             /\ (FailureCalls' \ FailureCalls # {}) => pc = "post_failure"
         ]_vars
    /\ []((impl \in Wrappers /\ op = "invoke") =>
             /\ SuccessCalls = {} \/ FailureCalls = {}
             /\ \A i \in SuccessCalls \cup FailureCalls :
                   FCallAt # 0 /\ FCallAt < i
             /\ SuccessCalls # {} => (r = Res(args) /\ ~FFailed)
             /\ FailureCalls # {} => (FFailed /\ errs[1] = FErr(args)))

\* A _HookWrapper whose callable raised an Exception: the post_failure hook
\* was called with (err, 1), then the post hook, and no call was made the
\* post_success way.
C23_Witness ==
    /\ impl = "_HookWrapper"
    /\ Done
    /\ hooks["post_failure"] = <<Fn(1)>>
    /\ hooks["post"] = <<Fn(2)>>
    /\ trace = <<FCall, CallRec(<<"hook", 1>>, <<FErr(args), Arg(args)>>),
                 CallRec(<<"hook", 2>>, ArgvA)>>
    /\ FailureCalls = {2}
    /\ SuccessCalls = {}

----------------------------------------------------------------------------
(* C28 *)

\* The callable was called and raised a BaseException that is not an
\* Exception.
FBaseFailed == errs # <<>> /\ errs[1] = FBase(args)

\* The calls made after the call of the callable.
AfterF == SubSeq(trace, FCallAt + 1, Len(trace))

\* C28: when the callable fails with a BaseException that is not an
\* Exception, no call is made the post_failure way or the post_success way,
\* the invocation ends in a failure, and when nothing raises afterwards the
\* calls after the callable's are exactly the post stage (every live post
\* hook once, in order; the action do once) and the caller receives that
\* very BaseException.
C28_BaseException ==
    (impl \in Wrappers \cup {"After", "Decorate"} /\ Done /\ FBaseFailed) =>
       /\ FailureCalls = {}
       /\ SuccessCalls = {}
       /\ caught = None /\ r = None
       /\ outcome.t = "raise"
       /\ Len(errs) = 1 =>
             /\ outcome = Raised(FBase(args))
             /\ (impl \in Wrappers /\ AsAttached) =>
                   AfterF = CallsOf("post", ArgvA)
             /\ impl \notin Wrappers => AfterF = <<DoCall>>

\* A Hookable with a post_failure hook and a post hook whose callable raised
\* a BaseException: only the post hook was called after it.
C28_Witness ==
    /\ impl = "Hookable"
    /\ Done
    /\ hooks["post_failure"] = <<WeakRef(1)>>
    /\ hooks["post"] = <<WeakRef(2)>>
    /\ held = {1, 2}
    /\ errs = <<FBase(args)>>
    /\ trace = <<FCall, CallRec(<<"hook", 2>>, ArgvA)>>
    /\ outcome = Raised(FBase(args))

----------------------------------------------------------------------------
(* C24 *)

\* A weak reference whose Hook is gone.
Expired(e) == IsRef(e) /\ ~Alive(e.h)

\* Hook h is alive after the step.
AliveNext(h) ==
    \/ h \in held'
    \/ \E s \in Stages : \E i \in 1..Len(hooks'[s]) : hooks'[s][i] = HookObj(h)
    \/ \E s \in Stages : \E i \in 1..Len(other'[s]) : other'[s][i] = HookObj(h)

\* The step belongs to an invoke of a list or of the wrapper.
InvokeStep == op' \in {"list", "invoke"}

\* The step is a cleanup of one list or of the four lists.
CleanupStep == op' \in {"cleanup", "cleanup_all"}

\* C24: no step of an invoke of a HookList or of the wrapper changes the
\* lists: no entry is added, moved or removed, an expired one included.
\* Only a cleanup takes an entry out of a list (every other step keeps the
\* entries of every list in place), so an expired entry stays stored until a
\* cleanup; a cleanup of a list that ends normally leaves no expired entry in
\* it.
C24_InvokeKeepsMembership ==
    [][/\ InvokeStep => (hooks' = hooks /\ other' = other /\ held' = held)
       /\ ~CleanupStep =>
             \A s \in Stages :
                /\ Len(hooks'[s]) >= Len(hooks[s])
                /\ SubSeq(hooks'[s], 1, Len(hooks[s])) = hooks[s]
       /\ (op' = "cleanup" /\ outcome' = Returned(None)) =>
             \A i \in 1..Len(hooks'[lst']) :
                IsRef(hooks'[lst'][i]) => AliveNext(hooks'[lst'][i].h)
      ]_vars

\* A list invoked to the end with an expired entry before a live one: the
\* live hook was called and both entries are still stored.
C24_Witness ==
    /\ ListDone
    /\ hooks[lst] = <<WeakRef(1), WeakRef(2)>>
    /\ held = {2}
    /\ Expired(hooks[lst][1])
    /\ trace = <<CallRec(<<"hook", 2>>, ArgvA)>>
    /\ outcome.t = "return"

----------------------------------------------------------------------------
(* C25 *)

\* The step is an attach, a release of a handle, a cleanup of one list or of
\* the four, or a look at the valid hooks of a list.
QuietStep ==
    /\ impl = "Hookable"
    /\ pc = "idle"
    /\ op' \in {"attach", "release", "cleanup", "cleanup_all", "repr"}

\* C25: an attach, a release of a handle, a cleanup (a repeated one
\* included) and a look at the valid hooks of a list call no hook: only an
\* invoke does.
C25_CleanupCallsNoHook ==
    [][QuietStep => trace' = <<>>]_vars

----------------------------------------------------------------------------
(* C26 *)

\* invoke(a) of list s of the lists hk, the hooks doing bs0 / bs.
InvokeOf(hk, s, a, bs0, bs) ==
    HookList_call_from(hk, hk[s], 1, <<Arg(a)>>, bs0, bs, <<>>, <<>>)

\* C26: a cleanup of a list that ends normally does not change what an invoke
\* of that list does: for every argument and whatever each hook does, the
\* invoke after the cleanup makes the same calls with the same arguments in
\* the same order and gives the same results (or the same error) as the
\* invoke before it.
C26_CleanupKeepsInvoke ==
    [][(impl = "Hookable" /\ pc = "idle" /\ op' = "cleanup"
          /\ outcome' = Returned(None)) =>
          \A a \in Args :
             \A bs0 \in [1..nhooks -> NullaryB], bs \in [1..nhooks -> CallB] :
                InvokeOf(hooks', lst', a, bs0, bs)
                   = InvokeOf(hooks, lst', a, bs0, bs)
      ]_vars

----------------------------------------------------------------------------
(* C29 *)

AfterCopies == {"After", "Decorate", "After_core", "Decorate_core"}

\* The errors the callable and the actions given may raise.
OwnErrors ==
    {FErr(args), FBase(args)}
       \cup {AErr(ParamOf(s)) : s \in {t \in Stages : actions[t] = "given"}}

\* C29: in every copy of After and Decorate a parameter left at its default
\* acts as an action that does nothing: no error is ever raised but those
\* of the callable and of the actions given, and with every parameter at its
\* default the decorated call returns f's result when f returns and raises
\* f's own error when f raises.
C29_DefaultDoesNothing ==
    (impl \in AfterCopies /\ Done) =>
       /\ \A i \in 1..Len(errs) : errs[i] \in OwnErrors
       /\ (\A s \in Stages : actions[s] = "DoNothing") =>
             /\ FCalls = 1
             /\ errs = <<>> => outcome = Returned(Res(args))
             /\ errs # <<>> => (Len(errs) = 1 /\ outcome = Raised(errs[1]))

----------------------------------------------------------------------------
(* C27 *)

\* A HookWrapper or _HookWrapper has run on the hooks and inputs a Hookable
\* ran on before.
TrioDone == impl \in {"HookWrapper", "_HookWrapper"} /\ memo # None /\ Done

\* C27: Hookable, HookWrapper and _HookWrapper, holding the same hooks in
\* the same stages (every handle kept) and run on the same argument with
\* the callable and every hook doing the same, make the same calls with the
\* same arguments in the same order, see the same errors raised and end
\* with the same result or error.
C27_SameWrappers ==
    TrioDone =>
       /\ trace = memo.trace
       /\ errs = memo.errs
       /\ outcome = memo.outcome

\* The third wrapper has run as well: the callable raised an Exception, the
\* post_failure hook returned and the post hook raised.
C27_Witness ==
    /\ TrioDone
    /\ impl = "_HookWrapper"
    /\ hooks["post_failure"] = <<Fn(1)>>
    /\ hooks["post"] = <<Fn(2)>>
    /\ script.f = "Exception"
    /\ script.h[2] = "raises"
    /\ Len(trace) = 3
    /\ memo.trace = trace
    /\ outcome = Raised(HErr(2))

----------------------------------------------------------------------------
(* C30 *)

IsStageCall(c) == Len(c.argv) = 1

\* The calls of the post stage: those made with (*args) after the call of
\* the callable.
PostCalls == SelectSeq(AfterF, IsStageCall)

\* The invocation is over, its post stage ran to its end, and a pre hook
\* changed the post list while an invocation was running.
InsideDone ==
    /\ impl \in {"Hookable", "HookWrapper"}
    /\ Done
    /\ memo # None
    /\ FCalls = 1
    /\ \A i \in 1..Len(errs) : errs[i] \in {FErr(args), FBase(args)}

\* C30: the post stage reads the post list when it runs.  After a pre hook
\* changed the post list during an invocation, the post stage calls exactly
\* the live hooks of the list as it is then, once each in order: a hook the
\* pre hook attached and kept is called in that post stage, and a hook it
\* released or removed is not.
C30_MembershipReadAtStage ==
    InsideDone =>
       /\ PostCalls = CallsOf("post", ArgvA)
       /\ memo.kind = "attach" =>
             \E i \in 1..Len(PostCalls) : PostCalls[i].fn = <<"hook", memo.h>>
       /\ memo.kind \in {"release", "remove"} =>
             \A i \in 1..Len(PostCalls) : PostCalls[i].fn # <<"hook", memo.h>>

\* A Hookable whose only pre hook attached a new hook to the empty post list
\* while it ran: that hook was called in the post stage of the same
\* invocation.
C30_Witness ==
    /\ impl = "Hookable"
    /\ Done
    /\ memo = [kind |-> "attach", h |-> 2, post |-> <<>>]
    /\ hooks["pre"] = <<WeakRef(1)>>
    /\ hooks["post"] = <<WeakRef(2)>>
    /\ errs = <<>>
    /\ trace = <<CallRec(<<"hook", 1>>, ArgvA), FCall,
                 CallRec(<<"hook", 2>>, ArgvA)>>

----------------------------------------------------------------------------
(* C21 *)

\* Two threads are in being: memo is the frame of the one not running.
Forked == memo # None /\ "op" \in DOMAIN memo

\* Call c was made with the arguments of the running invocation, and with
\* its own result or error if with one.
OwnCall(c) ==
    /\ c.argv[Len(c.argv)] = Arg(args)
    /\ Len(c.argv) = 2 => c.argv[1] \in {Res(args), FErr(args)}

\* C21: when two threads invoke the same wrapper and its hooks are left
\* alone, in every interleaving each invocation performs its own cycle:
\* every call it makes is made with its own arguments, and with its own
\* result or error; it calls the callable at most once; and when no hook
\* raises it has called, when it ends, its pre hooks, the callable once,
\* its post_success hooks with its own result (its post_failure hooks with
\* its own error), then its post hooks, and gives its caller its own
\* result or error.
C21_OwnCycle ==
    (Forked /\ op = "invoke") =>
       /\ \A i \in 1..Len(trace) : OwnCall(trace[i])
       /\ FCalls <= 1
       /\ (Done /\ errs = <<>>) =>
             /\ trace = CallsOf("pre", ArgvA) \o <<FCall>>
                        \o CallsOf("post_success", <<Res(args), Arg(args)>>)
                        \o CallsOf("post", ArgvA)
             /\ outcome = Returned(Res(args))
       /\ (Done /\ errs = <<FErr(args)>>) =>
             /\ trace = CallsOf("pre", ArgvA) \o <<FCall>>
                        \o CallsOf("post_failure", <<FErr(args), Arg(args)>>)
                        \o CallsOf("post", ArgvA)
             /\ outcome = Raised(FErr(args))

\* A thread ended an invocation with argument 1, having called a
\* post_success hook with its own result, while the other thread is in the
\* post_success stage of an invocation with argument 2, holding its own
\* result.
C21_Witness ==
    /\ Forked
    /\ Done /\ args = 1 /\ errs = <<>>
    /\ Len(Live("post_success")) = 1
    /\ outcome = Returned(Res(1))
    /\ memo.op = "invoke" /\ memo.pc = "post_success" /\ memo.idx = 1
    /\ memo.args = 2 /\ memo.r = Res(2)

====
